---- MODULE Spec2Model ----
(***************************************************************************)
(* The in-memory to-do CLI of GOdelivery: the domain records, the two      *)
(* map-backed repositories and the four use cases that main() dispatches   *)
(* to.  The repository holds the same program twice, once with Spanish     *)
(* identifiers (lines 1-234) and once with English ones (lines 236-469);   *)
(* the task side is the same code in both, the user side differs in that   *)
(* CrearUsuario takes a role and CreateUser does not.  `variant` says      *)
(* which of the two programs is running.                                   *)
(***************************************************************************)
EXTENDS Integers, Sequences, FiniteSets, TLC

VARIABLES
    variant,    \* "es": the program of lines 1-234, "en": the one of 236-469
    pid,        \* os.Getpid()
    uid,        \* os.Getuid()
    euid,       \* os.Geteuid()
    ppid,       \* os.Getppid()
    egid,       \* os.Getegid()
    users,      \* InMemoryUserRepo.users: map[string]User
    tasks,      \* InMemoryTaskRepo.tasks: map[string]Task
    last        \* the last step: its name, inputs, returned value and error

vars == <<variant, pid, uid, euid, ppid, egid, users, tasks, last>>

proc == <<variant, pid, uid, euid, ppid, egid>>

----------------------------------------------------------------------------
(* Bounds of the model.                                                    *)

\* the process id of the running program; its parent has the one before
MaxPid == 12

\* the user and group id of the invoking account; the binary is setuid root
MaxUid == 1

Names == {"Alice", "Bob"}

Roles == {"admin", "user"}

Titles == {"Buy milk", "Pay rent"}

\* an identifier no process-identity sum prints as: every sum is >= 1
UnknownID == "0"

----------------------------------------------------------------------------
(* Domain layer.                                                           *)

TaskPending == "Pendiente"

TaskInProgress == "En progreso"

TaskCompleted == "Finalizada"

TaskStatus == {TaskPending, TaskInProgress, TaskCompleted}

\* User{} and Task{}: Go's zero values, returned beside an error
ZeroUser == [ID |-> "", Name |-> "", Rol |-> ""]

ZeroTask == [ID |-> "", UserID |-> "", Title |-> "", Status |-> ""]

\* error values: nil, and the two fmt.Errorf messages
Nil == "<nil>"

ErrUserNotFound == "usuario no encontrado"

ErrTaskNotFound == "tarea no encontrada"

----------------------------------------------------------------------------
(* Utilities.                                                              *)

Digit(d) ==
    CASE d = 0 -> "0" [] d = 1 -> "1" [] d = 2 -> "2" [] d = 3 -> "3"
      [] d = 4 -> "4" [] d = 5 -> "5" [] d = 6 -> "6" [] d = 7 -> "7"
      [] d = 8 -> "8" [] d = 9 -> "9"

\* fmt.Sprintf("%d", n) for n >= 0: the decimal digits, most significant first
RECURSIVE Sprintf_d(_)
Sprintf_d(n) ==
    IF n < 10 THEN Digit(n) ELSE Sprintf_d(n \div 10) \o Digit(n % 10)

\* generateID reads the five process-identity numbers at every call
generateID == Sprintf_d(pid + uid + euid + ppid + egid)

\* m[k] = v on a Go map: insert or overwrite
MapAssign(m, k, v) ==
    [x \in DOMAIN m \cup {k} |-> IF x = k THEN v ELSE m[x]]

\* the orders in which `range` may visit the keys of a map (unspecified in Go)
RangeOrders(m) ==
    {o \in [1..Cardinality(DOMAIN m) -> DOMAIN m] :
        \A i, j \in DOMAIN o : i # j => o[i] # o[j]}

----------------------------------------------------------------------------
(* Infrastructure layer: the in-memory repositories.                       *)

\* Save that keeps an entry already stored under the identifier
InMemoryUserRepo_Save_KeepExisting(m, user) ==
    IF user.ID \in DOMAIN m
    THEN [users |-> m, err |-> Nil]
    ELSE [users |-> MapAssign(m, user.ID, user), err |-> Nil]

InMemoryUserRepo_Save(m, user) ==
    [users |-> MapAssign(m, user.ID, user), err |-> Nil]

InMemoryUserRepo_FindByID(m, id) ==
    IF id \notin DOMAIN m
    THEN [user |-> ZeroUser, err |-> ErrUserNotFound]
    ELSE [user |-> m[id], err |-> Nil]

InMemoryTaskRepo_Save(m, task) ==
    [tasks |-> MapAssign(m, task.ID, task), err |-> Nil]

\* FindByID that drops the `ok` of the map lookup
InMemoryTaskRepo_FindByID_IgnoreOk(m, id) ==
    IF id \notin DOMAIN m
    THEN [task |-> ZeroTask, err |-> Nil]
    ELSE [task |-> m[id], err |-> Nil]

InMemoryTaskRepo_FindByID(m, id) ==
    IF id \notin DOMAIN m
    THEN [task |-> ZeroTask, err |-> ErrTaskNotFound]
    ELSE [task |-> m[id], err |-> Nil]

\* ListByUser that compares the task's own identifier with userID
InMemoryTaskRepo_ListByUser_ByTaskID(m, order, userID) ==
    LET RECURSIVE loop(_, _)
        loop(i, acc) ==
            IF i > Len(order) THEN acc
            ELSE loop(i + 1, IF m[order[i]].ID = userID
                             THEN Append(acc, m[order[i]])
                             ELSE acc)
    IN  loop(1, <<>>)

\* `order` is the order in which range visits the keys of m
InMemoryTaskRepo_ListByUser(m, order, userID) ==
    LET RECURSIVE loop(_, _)
        loop(i, acc) ==
            IF i > Len(order) THEN acc
            ELSE loop(i + 1, IF m[order[i]].UserID = userID
                             THEN Append(acc, m[order[i]])
                             ELSE acc)
    IN  loop(1, <<>>)

\* Update without the existence check: an upsert
InMemoryTaskRepo_Update_Upsert(m, task) ==
    [tasks |-> MapAssign(m, task.ID, task), err |-> Nil]

InMemoryTaskRepo_Update(m, task) ==
    IF task.ID \notin DOMAIN m
    THEN [tasks |-> m, err |-> ErrTaskNotFound]
    ELSE [tasks |-> MapAssign(m, task.ID, task), err |-> Nil]

----------------------------------------------------------------------------
(* Application layer: the use cases, as functions of the repository's map. *)

\* CrearUsuario(repo, nombre, rol); CreateUser(repo, name) leaves Rol unset
CrearUsuarioFn(m, id, nombre, rol) ==
    LET usuario == [ID |-> id, Name |-> nombre, Rol |-> rol]
        s == InMemoryUserRepo_Save(m, usuario)
    IN  IF s.err # Nil
        THEN [users |-> s.users, user |-> ZeroUser, err |-> s.err]
        ELSE [users |-> s.users, user |-> usuario, err |-> Nil]

CreateUserFn(m, id, name) ==
    LET user == [ID |-> id, Name |-> name, Rol |-> ""]
        s == InMemoryUserRepo_Save(m, user)
    IN  IF s.err # Nil
        THEN [users |-> s.users, user |-> ZeroUser, err |-> s.err]
        ELSE [users |-> s.users, user |-> user, err |-> Nil]

\* CreateTask that looks the owner up first
CreateTaskFn_CheckOwner(m, id, userID, title) ==
    LET task == [ID |-> id, UserID |-> userID, Title |-> title,
                 Status |-> TaskPending]
    IN  IF InMemoryUserRepo_FindByID(users, userID).err # Nil
        THEN [tasks |-> m, task |-> ZeroTask, err |-> ErrUserNotFound]
        ELSE [tasks |-> InMemoryTaskRepo_Save(m, task).tasks, task |-> task,
              err |-> Nil]

CreateTaskFn(m, id, userID, title) ==
    LET task == [ID |-> id, UserID |-> userID, Title |-> title,
                 Status |-> TaskPending]
        s == InMemoryTaskRepo_Save(m, task)
    IN  IF s.err # Nil
        THEN [tasks |-> s.tasks, task |-> ZeroTask, err |-> s.err]
        ELSE [tasks |-> s.tasks, task |-> task, err |-> Nil]

\* CompleteTask that updates with a task built anew from the identifier
CompleteTaskFn_FreshTask(m, taskID) ==
    LET f == InMemoryTaskRepo_FindByID(m, taskID)
    IN  IF f.err # Nil
        THEN [tasks |-> m, err |-> f.err]
        ELSE InMemoryTaskRepo_Update(
                 m, [ZeroTask EXCEPT !.ID = taskID, !.Status = TaskCompleted])

\* CompleteTask that accepts only a task that is not yet in progress or done
CompleteTaskFn_OnlyPending(m, taskID) ==
    LET f == InMemoryTaskRepo_FindByID(m, taskID)
    IN  IF f.err # Nil
        THEN [tasks |-> m, err |-> f.err]
        ELSE IF f.task.Status # TaskPending
        THEN [tasks |-> m, err |-> "estado invalido"]
        ELSE InMemoryTaskRepo_Update(m, [f.task EXCEPT !.Status = TaskCompleted])

CompleteTaskFn(m, taskID) ==
    LET f == InMemoryTaskRepo_FindByID(m, taskID)
    IN  IF f.err # Nil
        THEN [tasks |-> m, err |-> f.err]
        ELSE InMemoryTaskRepo_Update(m, [f.task EXCEPT !.Status = TaskCompleted])

ListTasksFn(m, order, userID) == InMemoryTaskRepo_ListByUser(m, order, userID)

----------------------------------------------------------------------------
(* The state machine.                                                      *)

\* the identifiers a caller can pass: the one generateID prints now, those
\* already printed and stored, and one that is never generated
IdInputs == {generateID, UnknownID} \cup DOMAIN users \cup DOMAIN tasks

NoCall == [op |-> "start", arg |-> <<>>, err |-> Nil, ret |-> <<>>]

Init ==
    /\ variant \in {"es", "en"}
    /\ pid = MaxPid
    /\ ppid = MaxPid - 1
    /\ uid = MaxUid
    /\ euid = 0
    /\ egid = uid
    /\ users = <<>>
    /\ tasks = <<>>
    /\ last = NoCall

\* case '1' of main, Spanish program
CrearUsuario ==
    /\ variant = "es"
    /\ \E nombre \in Names, rol \in Roles :
        LET r == CrearUsuarioFn(users, generateID, nombre, rol)
        IN  /\ users' = r.users
            /\ last' = [op |-> "CreateUser", arg |-> <<nombre, rol>>,
                        err |-> r.err, ret |-> r.user]
    /\ UNCHANGED <<proc, tasks>>

\* case '1' of main, English program
CreateUser ==
    /\ variant = "en"
    /\ \E name \in Names :
        LET r == CreateUserFn(users, generateID, name)
        IN  /\ users' = r.users
            /\ last' = [op |-> "CreateUser", arg |-> <<name, "">>,
                        err |-> r.err, ret |-> r.user]
    /\ UNCHANGED <<proc, tasks>>

\* case '2' of main
CreateTask ==
    /\ \E userID \in IdInputs, title \in Titles :
        LET r == CreateTaskFn(tasks, generateID, userID, title)
        IN  /\ tasks' = r.tasks
            /\ last' = [op |-> "CreateTask", arg |-> <<userID, title>>,
                        err |-> r.err, ret |-> r.task]
    /\ UNCHANGED <<proc, users>>

\* case '3' of main
CompleteTask ==
    /\ \E taskID \in IdInputs :
        LET r == CompleteTaskFn(tasks, taskID)
        IN  /\ tasks' = r.tasks
            /\ last' = [op |-> "CompleteTask", arg |-> <<taskID>>,
                        err |-> r.err, ret |-> <<>>]
    /\ UNCHANGED <<proc, users>>

\* case '4' of main
ListTasks ==
    /\ \E userID \in IdInputs, order \in RangeOrders(tasks) :
        last' = [op |-> "ListTasks", arg |-> <<userID>>, err |-> Nil,
                 ret |-> ListTasksFn(tasks, order, userID)]
    /\ UNCHANGED <<proc, users, tasks>>

\* the parent process exits and the process is re-parented to init (pid 1):
\* os.Getppid() answers differently from then on
ParentExit ==
    /\ ppid # 1
    /\ ppid' = 1
    /\ last' = [op |-> "ParentExit", arg |-> <<>>, err |-> Nil, ret |-> <<>>]
    /\ UNCHANGED <<variant, pid, uid, euid, egid, users, tasks>>

Next ==
    \/ CrearUsuario
    \/ CreateUser
    \/ CreateTask
    \/ CompleteTask
    \/ ListTasks
    \/ ParentExit

Spec == Init /\ [][Next]_vars

----------------------------------------------------------------------------
(* The repositories of the English program under a client that calls the   *)
(* methods of the UserRepository and TaskRepository interfaces directly,   *)
(* with any entity, beside the use cases.  The parent process stays alive  *)
(* here, so generateID prints one identifier throughout.                   *)

UserInputs == [ID : IdInputs, Name : Names, Rol : {"admin", ""}]

TaskInputs ==
    [ID : IdInputs, UserID : IdInputs, Title : Titles, Status : TaskStatus]

UserRepository_Save ==
    /\ \E user \in UserInputs :
        LET r == InMemoryUserRepo_Save(users, user)
        IN  /\ users' = r.users
            /\ last' = [op |-> "UserRepository.Save", arg |-> <<user>>,
                        err |-> r.err, ret |-> <<>>]
    /\ UNCHANGED <<proc, tasks>>

UserRepository_FindByID ==
    /\ \E id \in IdInputs :
        LET r == InMemoryUserRepo_FindByID(users, id)
        IN  last' = [op |-> "UserRepository.FindByID", arg |-> <<id>>,
                     err |-> r.err, ret |-> r.user]
    /\ UNCHANGED <<proc, users, tasks>>

TaskRepository_Save ==
    /\ \E task \in TaskInputs :
        LET r == InMemoryTaskRepo_Save(tasks, task)
        IN  /\ tasks' = r.tasks
            /\ last' = [op |-> "TaskRepository.Save", arg |-> <<task>>,
                        err |-> r.err, ret |-> <<>>]
    /\ UNCHANGED <<proc, users>>

TaskRepository_FindByID ==
    /\ \E id \in IdInputs :
        LET r == InMemoryTaskRepo_FindByID(tasks, id)
        IN  last' = [op |-> "TaskRepository.FindByID", arg |-> <<id>>,
                     err |-> r.err, ret |-> r.task]
    /\ UNCHANGED <<proc, users, tasks>>

TaskRepository_Update ==
    /\ \E task \in TaskInputs :
        LET r == InMemoryTaskRepo_Update(tasks, task)
        IN  /\ tasks' = r.tasks
            /\ last' = [op |-> "TaskRepository.Update", arg |-> <<task>>,
                        err |-> r.err, ret |-> <<>>]
    /\ UNCHANGED <<proc, users>>

RepoNext ==
    \/ CreateUser
    \/ CreateTask
    \/ CompleteTask
    \/ ListTasks
    \/ UserRepository_Save
    \/ UserRepository_FindByID
    \/ TaskRepository_Save
    \/ TaskRepository_FindByID
    \/ TaskRepository_Update

RepoInit == Init /\ variant = "en"

RepoSpec == RepoInit /\ [][RepoNext]_vars

----------------------------------------------------------------------------
(* Properties.                                                             *)

Range(seq) == {seq[i] : i \in DOMAIN seq}

\* C1: every CreateUser / CreateTask call generates an identifier that is
\* not yet a key of its store, so a create never overwrites an entry.
C1_FreshIdentifier ==
    [][/\ (last'.op = "CreateTask" => last'.ret.ID \notin DOMAIN tasks)
       /\ (last'.op = "CreateUser" => last'.ret.ID \notin DOMAIN users)]_vars

\* C2: the owner-identifier stored under a task identifier is the same in
\* every later state, whatever use cases follow.
C2_OwnerIdNeverChanges ==
    [][\A id \in DOMAIN tasks :
          /\ id \in DOMAIN tasks'
          /\ tasks'[id].UserID = tasks[id].UserID]_vars

\* C3: a task stored as Completed is Completed in every later state, and a
\* stored task's status is changed by CompleteTask only.
C3_CompletedStaysCompleted ==
    [][\A id \in DOMAIN tasks :
          /\ id \in DOMAIN tasks'
          /\ tasks[id].Status = TaskCompleted
                => tasks'[id].Status = TaskCompleted
          /\ tasks'[id].Status # tasks[id].Status
                => last'.op = "CompleteTask"]_vars

\* C4: once an owner is stored under an identifier, findById of that
\* identifier returns the same name and role in every later state.
C4_OwnerImmutable ==
    [][\A id \in DOMAIN users :
          LET before == InMemoryUserRepo_FindByID(users, id)
              after == InMemoryUserRepo_FindByID(users', id)
          IN  /\ after.err = Nil
              /\ after.user.Name = before.user.Name
              /\ after.user.Rol = before.user.Rol]_vars

\* the stored tasks whose owner-identifier is userID
TasksOf(userID) == {tasks[id] : id \in {k \in DOMAIN tasks : tasks[k].UserID = userID}}

\* C5: listByOwner(ownerId) returns exactly the stored tasks whose
\* owner-identifier is ownerId, each once, and no other task.
C5_ListByOwnerExact ==
    last.op = "ListTasks" =>
        /\ Range(last.ret) = TasksOf(last.arg[1])
        /\ Len(last.ret) = Cardinality(TasksOf(last.arg[1]))

\* a listing that returned one of two stored tasks and left the other out
C5_Witness ==
    /\ last.op = "ListTasks"
    /\ Len(last.ret) = 1
    /\ Cardinality(DOMAIN tasks) = 2

\* C6: update of a task whose identifier is not a key of the store fails
\* with NotFound and leaves the store as it was; with the identifier
\* present it replaces the whole stored entry by the given task.
C6_UpdateContract ==
    [][last'.op = "TaskRepository.Update" =>
          LET task == last'.arg[1]
          IN  IF task.ID \notin DOMAIN tasks
              THEN /\ last'.err = ErrTaskNotFound
                   /\ tasks' = tasks
              ELSE /\ last'.err = Nil
                   /\ tasks' = [tasks EXCEPT ![task.ID] = task]]_vars

\* an update that failed on a store holding other tasks
C6_Witness ==
    /\ last.op = "TaskRepository.Update"
    /\ last.err = ErrTaskNotFound
    /\ last.arg[1].ID \notin DOMAIN tasks
    /\ DOMAIN tasks # {}

\* C7: CompleteTask of a stored task succeeds whatever the task's status,
\* findById then returns it as Completed, and a second CompleteTask also
\* succeeds and leaves the store as the first left it.
C7_CompleteIdempotent ==
    [][/\ (last'.op = "CompleteTask" /\ last'.arg[1] \in DOMAIN tasks) =>
              LET id == last'.arg[1]
                  found == InMemoryTaskRepo_FindByID(tasks', id)
              IN  /\ last'.err = Nil
                  /\ found.err = Nil
                  /\ found.task = [tasks[id] EXCEPT !.Status = TaskCompleted]
                  /\ CompleteTaskFn(tasks', id) = [tasks |-> tasks', err |-> Nil]
       /\ (/\ last.op = "CompleteTask" /\ last.err = Nil
           /\ last'.op = "CompleteTask" /\ last'.arg = last.arg) =>
              /\ last'.err = Nil
              /\ tasks' = tasks]_vars

\* a CompleteTask that succeeded, beside another task still in progress
C7_Witness ==
    /\ last.op = "CompleteTask"
    /\ last.err = Nil
    /\ tasks[last.arg[1]].Status = TaskCompleted
    /\ \E id \in DOMAIN tasks : tasks[id].Status = TaskInProgress

\* C8: save never fails, and findById of the saved entity's identifier
\* right after it returns an entity equal to the one saved in every field,
\* on insert and on overwrite, in the owner store and in the task store.
C8_SaveFindRoundTrip ==
    [][/\ last'.op = "UserRepository.Save" =>
              /\ last'.err = Nil
              /\ InMemoryUserRepo_FindByID(users', last'.arg[1].ID)
                    = [user |-> last'.arg[1], err |-> Nil]
       /\ last'.op = "TaskRepository.Save" =>
              /\ last'.err = Nil
              /\ InMemoryTaskRepo_FindByID(tasks', last'.arg[1].ID)
                    = [task |-> last'.arg[1], err |-> Nil]]_vars

\* an owner saved into a store that holds a second owner
C8_Witness ==
    /\ last.op = "UserRepository.Save"
    /\ last.arg[1].ID \in DOMAIN users
    /\ users[last.arg[1].ID] = last.arg[1]
    /\ Cardinality(DOMAIN users) = 2

\* C9: findById fails with NotFound exactly when no entry has the
\* identifier, then returns no entity, and never changes a store.
C9_FindByIDNotFound ==
    [][/\ last'.op = "TaskRepository.FindByID" =>
              LET id == last'.arg[1]
              IN  /\ tasks' = tasks /\ users' = users
                  /\ last'.err = ErrTaskNotFound <=> id \notin DOMAIN tasks
                  /\ id \notin DOMAIN tasks => last'.ret = ZeroTask
                  /\ id \in DOMAIN tasks =>
                        last'.err = Nil /\ last'.ret = tasks[id]
       /\ last'.op = "UserRepository.FindByID" =>
              LET id == last'.arg[1]
              IN  /\ tasks' = tasks /\ users' = users
                  /\ last'.err = ErrUserNotFound <=> id \notin DOMAIN users
                  /\ id \notin DOMAIN users => last'.ret = ZeroUser
                  /\ id \in DOMAIN users =>
                        last'.err = Nil /\ last'.ret = users[id]]_vars

\* a lookup of a task identifier never saved, on a store that is not empty
C9_Witness ==
    /\ last.op = "TaskRepository.FindByID"
    /\ last.err = ErrTaskNotFound
    /\ last.ret = ZeroTask
    /\ DOMAIN tasks # {}

\* C10: CreateTask(ownerId, title) always succeeds and stores a Pending
\* task with that ownerId and title, also when no owner has the
\* identifier ownerId, and leaves the owner store as it was.
C10_CreateTaskUnchecked ==
    [][last'.op = "CreateTask" =>
          LET task == last'.ret
          IN  /\ last'.err = Nil
              /\ task.UserID = last'.arg[1]
              /\ task.Title = last'.arg[2]
              /\ task.Status = TaskPending
              /\ task.ID \in DOMAIN tasks'
              /\ tasks'[task.ID] = task
              /\ users' = users]_vars

\* a task created for an owner identifier that the owner store, which
\* holds an owner, does not know
C10_Witness ==
    /\ last.op = "CreateTask"
    /\ last.err = Nil
    /\ DOMAIN users # {}
    /\ last.arg[1] \notin DOMAIN users
    /\ last.ret.ID \in DOMAIN tasks
    /\ tasks[last.ret.ID].UserID = last.arg[1]

\* C11: CompleteTask of an identifier that is not in the task store
\* returns the repository's NotFound error and leaves the task store and
\* the owner store as they were; on success it changes the status of the
\* task stored under the identifier and nothing else: not that task's
\* owner-identifier or title, no other stored task, no owner.
C11_CompleteTaskFrame ==
    [][last'.op = "CompleteTask" =>
          LET id == last'.arg[1]
          IN  IF id \notin DOMAIN tasks
              THEN /\ last'.err = InMemoryTaskRepo_FindByID(tasks, id).err
                   /\ last'.err = ErrTaskNotFound
                   /\ tasks' = tasks
                   /\ users' = users
              ELSE /\ last'.err = Nil
                   /\ DOMAIN tasks' = DOMAIN tasks
                   /\ tasks'[id].ID = tasks[id].ID
                   /\ tasks'[id].UserID = tasks[id].UserID
                   /\ tasks'[id].Title = tasks[id].Title
                   /\ \A k \in DOMAIN tasks \ {id} : tasks'[k] = tasks[k]
                   /\ users' = users]_vars

\* a CompleteTask that failed on an identifier not stored, with a task and
\* an owner in the stores
C11_Witness ==
    /\ last.op = "CompleteTask"
    /\ last.err = ErrTaskNotFound
    /\ last.arg[1] \notin DOMAIN tasks
    /\ DOMAIN tasks # {}
    /\ DOMAIN users # {}

====
